---- MODULE Spec2Model ----
(***************************************************************************)
(* Ingestion core of nebula: IngestSpec::work() and its loaders, the       *)
(* fetch stage, the ingest pipeline (batch loop) and the block manager     *)
(* they install blocks into.                                               *)
(***************************************************************************)
EXTENDS Integers, Sequences, FiniteSets, TLC

VARIABLES
  bm,        \* BlockManager: the set of signatures of the installed blocks
  files,     \* local disk: the temporary files that exist, with their rows
  enrolled,  \* TableService: names of the enrolled tables
  last,      \* the most recent work() invocation: its inputs and its outcome
  calls,     \* number of work() invocations so far
  pl,        \* the ingest pipeline run step by step (SpecIngest)
  cc,        \* concurrent workers and a reader on one block manager (SpecSwap)
  made,      \* the IngestSpecs constructed so far (SpecId)
  fb,        \* a FlatBuffer and the rows added to it (SpecFlat)
  rw,        \* a RowWrapperWithTime and its most recent answer (SpecAdapter)
  tb         \* a TableSpec and the schemas derived from it (SpecTable)

vars == <<bm, files, enrolled, last, calls, pl, cc, made, fb, rw, tb>>

----------------------------------------------------------------------------
(* Bounds of the model.                                                    *)

\* number of work() invocations in one behaviour
MaxCalls == 2
\* batch capacity used by work() in the model (the flag NBLOCK_MAX_ROWS)
BlockMaxRows == 2
\* width in bits of size_t in the model
SizeBits == 20
\* std::thread::hardware_concurrency() of the modelled host
NumCores == 4

----------------------------------------------------------------------------
(* Program constants.                                                      *)

LOADER_SWAP == "Swap"
LOADER_ROLL == "Roll"
FLAGS_NTEST_LOADER == "NebulaTest"
TIME_COLUMN == "_time_"
TEST_TABLE_NAME == "nebula.test"
HOUR_MINUTES == 60
MINUTE_SECONDS == 60
HOUR_SECONDS == HOUR_MINUTES * MINUTE_SECONDS

DataSources == {"Custom", "S3", "LOCAL", "KAFKA", "GSHEET"}
TimeTypes == {"STATIC", "CURRENT", "COLUMN", "MACRO", "PROVIDED"}

\* DataSourceUtils::isFileSystem
isFileSystem(ds) == ds = "S3" \/ ds = "LOCAL"

----------------------------------------------------------------------------
(* size_t arithmetic.                                                      *)

RECURSIVE Pow2(_)
Pow2(n) == IF n = 0 THEN 1 ELSE 2 * Pow2(n - 1)

SizeMod == Pow2(SizeBits)
\* std::numeric_limits<size_t>::max() and ::min()
SIZE_MAX == SizeMod - 1
SIZE_MIN == 0
\* conversion of an int64_t to size_t
ToSizeT(v) == v % SizeMod

----------------------------------------------------------------------------
(* Block signatures and the block manager.  A signature is the identity of *)
(* an installed block, so the block manager is the set of the signatures   *)
(* of its blocks (adding a signature that is installed changes nothing).   *)

BlockSignature(table, seq, tmin, tmax, spec) ==
  [table |-> table, seq |-> seq, tmin |-> tmin, tmax |-> tmax, spec |-> spec]

\* two signatures share (table_name, spec_id)
sameSpec(a, b) == a.table = b.table /\ a.spec = b.spec

\* BlockManager::removeSameSpec
removeSameSpec(b, sig) == {s \in b : ~sameSpec(s, sig)}

\* BlockManager::add of a list of blocks
bmAddBlocks(b, blocks) == b \cup {blocks[i].sig : i \in 1..Len(blocks)}

\* BlockManager::add of one signature after the other
bmAddSigs(b, sigs) == b \cup {sigs[i] : i \in 1..Len(sigs)}

----------------------------------------------------------------------------
(* Tables, ingest specs and the rows of the backing files.                 *)

TimeSpec(type, unixTimeValue, colName, pattern) ==
  [type |-> type, unixTimeValue |-> unixTimeValue, colName |-> colName,
   pattern |-> pattern]

TableSpec(name, max_hr, schema, source, loader, format, timeSpec) ==
  [name |-> name, max_hr |-> max_hr, schema |-> schema, source |-> source,
   loader |-> loader, format |-> format, timeSpec |-> timeSpec]

\* specId without the size
specId_NoSize(name, path, size) == name \o "@" \o path

\* IngestSpec::id(): "{table.name}@{path}@{size}"
specId(name, path, size) == name \o "@" \o path \o "@" \o ToString(size)

\* IngestSpec constructor that puts the version into the id
IngestSpec_VersionInId(table, version, path, domain, size, state, mdate) ==
  [table |-> table, version |-> version, path |-> path, domain |-> domain,
   size |-> size, state |-> state, mdate |-> mdate,
   id |-> specId(table.name, path, size) \o "@" \o version]

\* IngestSpec constructor
IngestSpec(table, version, path, domain, size, state, mdate) ==
  [table |-> table, version |-> version, path |-> path, domain |-> domain,
   size |-> size, state |-> state, mdate |-> mdate,
   id |-> specId(table.name, path, size)]

\* Evidence::time(string, pattern): epoch seconds of a formatted time, 0 when
\* the string does not parse
EvidenceTime(str, pattern) ==
  CASE str = "1970-01-01 00:00:03" -> 3
    [] str = "1970-01-01 00:00:05" -> 5
    [] str = "1970-01-01 00:00:07" -> 7
    [] str = "1969-12-31 23:59:58" -> -2
    [] OTHER -> 0

\* the time function chosen by the switch on the time type; now is the value
\* Evidence::unix_timestamp() returns at the call
timeFunc(ts, mdate, row, now) ==
  CASE ts.type = "STATIC" -> ts.unixTimeValue
    [] ts.type = "CURRENT" -> now
    [] ts.type = "COLUMN" -> EvidenceTime(row[ts.colName], ts.pattern)
    [] ts.type = "MACRO" -> IF ts.pattern = "date" THEN mdate ELSE 0

\* the switch has a case for the time type (its default returns no blocks)
timeTypeHandled(type) == type \in {"STATIC", "CURRENT", "COLUMN", "MACRO"}

\* RowData::isNull and the reads of a source row
rowIsNull(row, field) == field \in row.nulls
rowRead(row, field) == row[field]

\* RowWrapperWithTime(timeFunc): the time function is given by the time spec
\* and the mdate it was made from; no row is bound yet
RowWrapperWithTime(ts, mdate) ==
  [timeSpec |-> ts, mdate |-> mdate, bound |-> FALSE, row |-> [nulls |-> {}]]

\* set that binds the first row only
rwSet_Once(w, row) ==
  IF w.bound THEN w ELSE [w EXCEPT !.bound = TRUE, !.row = row]

\* RowWrapperWithTime::set(row)
rwSet(w, row) == [w EXCEPT !.bound = TRUE, !.row = row]

\* RowWrapperWithTime::isNull(field)
rwIsNull(w, field) ==
  IF field = TIME_COLUMN THEN FALSE ELSE rowIsNull(w.row, field)

\* RowWrapperWithTime::readLong(field)
rwReadLong(w, field, now) ==
  IF field = TIME_COLUMN THEN timeFunc(w.timeSpec, w.mdate, w.row, now)
  ELSE rowRead(w.row, field)

\* the reads made by the TRANSFER macro: readBool, readInt, readString, ...
rwRead(w, field) == rowRead(w.row, field)

\* a column of a schema: a named type node
Column(name, type) == [name |-> name, type |-> type]

\* LongType::createTree(name)
LongType(name) == Column(name, "long")

\* Schema::remove(name)
schemaRemove(schema, name) == SelectSeq(schema, LAMBDA c : c.name # name)

\* the names of the columns of the declared schema, in order
columnsOf(schema) == [i \in 1..Len(schema) |-> schema[i].name]

\* finalSchema that leaves the source column of a COLUMN time spec in place
finalSchema_KeepColumn(table) ==
  Append(table.schema, LongType(TIME_COLUMN))

\* TableSpec::to(): _time_ is appended, then the source column of a COLUMN
\* time spec is removed
to(table) ==
  LET schemaPtr == Append(table.schema, LongType(TIME_COLUMN)) IN
  IF table.timeSpec.type = "COLUMN"
  THEN schemaRemove(schemaPtr, table.timeSpec.colName)
  ELSE schemaPtr

\* the schema of the table that ingest() builds and enrolls
finalSchema(table) ==
  IF table.timeSpec.type = "COLUMN"
  THEN Append(schemaRemove(table.schema, table.timeSpec.colName), LongType(TIME_COLUMN))
  ELSE Append(table.schema, LongType(TIME_COLUMN))

\* TableService::enroll: registration by name, the first writer wins
enroll(reg, name, schema) ==
  IF \E t \in reg : t.name = name THEN reg
  ELSE reg \cup {[name |-> name, schema |-> schema]}

\* a reader exists for the format
formatSupported(format) == format = "csv" \/ format = "parquet"

NoReader == [kind |-> "none", columns |-> <<>>, schema |-> <<>>]

\* the reader ingest() opens: the csv reader gets the column names listed
\* before the switch on the time type, the parquet reader the declared schema
openReader(table, columns) ==
  IF table.format = "csv"
  THEN [kind |-> "csv", columns |-> columns, schema |-> <<>>]
  ELSE IF table.format = "parquet"
  THEN [kind |-> "parquet", columns |-> <<>>, schema |-> table.schema]
  ELSE NoReader

----------------------------------------------------------------------------
(* The batch loop of IngestSpec::ingest().                                 *)

\* range = { numeric_limits<size_t>::max(), numeric_limits<size_t>::min() }
emptyRange == <<SIZE_MAX, SIZE_MIN>>

\* the loop's locals before the first row
loopInit == [batch |-> <<>>, range |-> emptyRange, blocks |-> <<>>, blockId |-> 0]

\* makeBlock with the table name and the spec id in each other's place
makeBlock_Swapped(tableName, spec, bid, range, b) ==
  [sig |-> BlockSignature(spec, bid, range[1], range[2], tableName), rows |-> b]

\* the makeBlock lambda: signature from table name, sequence, range and spec
makeBlock(tableName, spec, bid, range, b) ==
  [sig |-> BlockSignature(tableName, bid, range[1], range[2], spec), rows |-> b]

\* flushIfFull with the capacity test off by one (> for >=)
flushIfFull_Greater(st, c) ==
  IF Len(st.batch) > c.bRows
  THEN [batch |-> <<>>,
        range |-> emptyRange,
        blocks |-> Append(st.blocks,
                          makeBlock(c.tableName, c.spec, st.blockId, st.range, st.batch)),
        blockId |-> st.blockId + 1]
  ELSE st

\* flushIfFull without the increment of blockId
flushIfFull_KeepId(st, c) ==
  IF Len(st.batch) >= c.bRows
  THEN [batch |-> <<>>,
        range |-> emptyRange,
        blocks |-> Append(st.blocks,
                          makeBlock(c.tableName, c.spec, st.blockId, st.range, st.batch)),
        blockId |-> st.blockId]
  ELSE st

\* if (batch->getRows() >= bRows): push the block, new batch, reset the range
flushIfFull(st, c) ==
  IF Len(st.batch) >= c.bRows
  THEN [batch |-> <<>>,
        range |-> emptyRange,
        blocks |-> Append(st.blocks,
                          makeBlock(c.tableName, c.spec, st.blockId, st.range, st.batch)),
        blockId |-> st.blockId + 1]
  ELSE st

\* range update with the time read for the range
updateRange(range, time) ==
  <<IF time < range[1] THEN time ELSE range[1],
    IF time > range[2] THEN time ELSE range[2]>>

\* loopBody that goes on to the next row after it pushed a block
loopBody_SkipAfterFlush(st, row, c, t1, t2) ==
  LET s1 == flushIfFull(st, c)
      time == ToSizeT(timeFunc(c.timeSpec, c.mdate, row, t1))
      stored == [src |-> row, time |-> timeFunc(c.timeSpec, c.mdate, row, t2)]
  IN IF Len(st.batch) >= c.bRows
     THEN s1
     ELSE [s1 EXCEPT !.range = updateRange(s1.range, time),
                     !.batch = Append(s1.batch, stored)]

\* one iteration of the while loop; t1 is the clock at the read for the range,
\* t2 the clock when Batch::add reads the _time_ column
loopBody(st, row, c, t1, t2) ==
  LET s1 == flushIfFull(st, c)
      time == ToSizeT(timeFunc(c.timeSpec, c.mdate, row, t1))
      stored == [src |-> row, time |-> timeFunc(c.timeSpec, c.mdate, row, t2)]
  IN [s1 EXCEPT !.range = updateRange(s1.range, time),
                !.batch = Append(s1.batch, stored)]

\* after the loop: if (batch->getRows() > 0) push the last block
loopEnd(st, c) ==
  IF Len(st.batch) > 0
  THEN Append(st.blocks, makeBlock(c.tableName, c.spec, st.blockId, st.range, st.batch))
  ELSE st.blocks

RECURSIVE loopFrom(_, _, _, _, _)
loopFrom(rows, i, st, c, now) ==
  IF i > Len(rows) THEN st
  ELSE loopFrom(rows, i + 1, loopBody(st, rows[i], c, now, now), c, now)

\* the context the loop runs in
loopCtx(spec, bRows) ==
  [tableName |-> spec.table.name, spec |-> spec.id, bRows |-> bRows,
   timeSpec |-> spec.table.timeSpec, mdate |-> spec.mdate]

\* IngestSpec::ingest(file): the blocks built from the rows of the file, and
\* the table registry afterwards
ingest(spec, rows, reg, bRows, now) ==
  LET table == spec.table IN
  IF ~timeTypeHandled(table.timeSpec.type)
  THEN [blocks |-> <<>>, enrolled |-> reg]
  ELSE LET reg2 == enroll(reg, table.name, finalSchema(table)) IN
       IF ~formatSupported(table.format)
       THEN [blocks |-> <<>>, enrolled |-> reg2]
       ELSE [blocks |-> loopEnd(loopFrom(rows, 1, loopInit, loopCtx(spec, bRows), now),
                                loopCtx(spec, bRows)),
             enrolled |-> reg2]

----------------------------------------------------------------------------
(* The fetch stage.                                                        *)

\* path of the temporary file a copy creates
TmpPath == "/tmp/nebula.s3"

\* downloadFile: true iff GetObject succeeds and the object has content
downloadFile(obj) == obj.success /\ obj.length # 0

\* NFS::copy(key): downloads the object into a fresh temporary file and
\* returns the path of that file
copy(disk, key, obj) ==
  [path |-> TmpPath,
   files |-> disk \cup {[path |-> TmpPath,
                         rows |-> IF downloadFile(obj) THEN obj.rows ELSE <<>>]}]

\* the rows a reader gets from a local file
rowsOf(disk, path) ==
  IF \E f \in disk : f.path = path
  THEN (CHOOSE f \in disk : f.path = path).rows
  ELSE <<>>

\* unlink(path)
unlink(disk, path) == {f \in disk : f.path # path}

\* IngestSpec::load(): copy by id_, ingest the temporary file, unlink it
load(spec, w, obj, now) ==
  LET c == copy(w.files, spec.id, obj)
      r == ingest(spec, rowsOf(c.files, c.path), w.enrolled, BlockMaxRows, now)
  IN [blocks |-> r.blocks,
      files |-> unlink(c.files, c.path),
      enrolled |-> r.enrolled,
      keys |-> Append(w.keys, spec.id)]

----------------------------------------------------------------------------
(* The loaders and IngestSpec::work().                                     *)

RECURSIVE removeEach(_, _, _)
\* for (BatchBlock& b : blocks) bm->removeSameSpec(b.signature())
removeEach(b, blocks, i) ==
  IF i > Len(blocks) THEN b
  ELSE removeEach(removeSameSpec(b, blocks[i].sig), blocks, i + 1)

\* the signatures of a list of blocks, in list order
sigsOf(blocks) == [i \in 1..Len(blocks) |-> blocks[i].sig]

\* loadSwap with the new blocks added before the same-spec blocks are removed
loadSwap_AddFirst(spec, w, obj, now) ==
  IF spec.table.source = "S3"
  THEN LET l == load(spec, w, obj, now) IN
       [ret |-> TRUE,
        bm |-> removeEach(bmAddBlocks(w.bm, l.blocks), l.blocks, 1),
        files |-> l.files, enrolled |-> l.enrolled, keys |-> l.keys,
        produced |-> sigsOf(l.blocks), blocks |-> l.blocks]
  ELSE [ret |-> FALSE, bm |-> w.bm, files |-> w.files, enrolled |-> w.enrolled,
        keys |-> w.keys, produced |-> <<>>, blocks |-> <<>>]

\* loadSwap that installs the new blocks in place of all installed blocks
loadSwap_ReplaceAll(spec, w, obj, now) ==
  IF spec.table.source = "S3"
  THEN LET l == load(spec, w, obj, now) IN
       [ret |-> TRUE,
        bm |-> bmAddBlocks({}, l.blocks),
        files |-> l.files, enrolled |-> l.enrolled, keys |-> l.keys,
        produced |-> sigsOf(l.blocks), blocks |-> l.blocks]
  ELSE [ret |-> FALSE, bm |-> w.bm, files |-> w.files, enrolled |-> w.enrolled,
        keys |-> w.keys, produced |-> <<>>, blocks |-> <<>>]

\* IngestSpec::loadSwap()
loadSwap(spec, w, obj, now) ==
  IF spec.table.source = "S3"
  THEN LET l == load(spec, w, obj, now) IN
       [ret |-> TRUE,
        bm |-> bmAddBlocks(removeEach(w.bm, l.blocks, 1), l.blocks),
        files |-> l.files, enrolled |-> l.enrolled, keys |-> l.keys,
        produced |-> sigsOf(l.blocks), blocks |-> l.blocks]
  ELSE [ret |-> FALSE, bm |-> w.bm, files |-> w.files, enrolled |-> w.enrolled,
        keys |-> w.keys, produced |-> <<>>, blocks |-> <<>>]

\* loadRoll with the removal loop of loadSwap copied into it
loadRoll_RemoveFirst(spec, w, obj, now) ==
  IF spec.table.source = "S3"
  THEN LET l == load(spec, w, obj, now) IN
       [ret |-> TRUE,
        bm |-> bmAddBlocks(removeEach(w.bm, l.blocks, 1), l.blocks),
        files |-> l.files, enrolled |-> l.enrolled, keys |-> l.keys,
        produced |-> sigsOf(l.blocks), blocks |-> l.blocks]
  ELSE [ret |-> FALSE, bm |-> w.bm, files |-> w.files, enrolled |-> w.enrolled,
        keys |-> w.keys, produced |-> <<>>, blocks |-> <<>>]

\* IngestSpec::loadRoll()
loadRoll(spec, w, obj, now) ==
  IF spec.table.source = "S3"
  THEN LET l == load(spec, w, obj, now) IN
       [ret |-> TRUE,
        bm |-> bmAddBlocks(w.bm, l.blocks),
        files |-> l.files, enrolled |-> l.enrolled, keys |-> l.keys,
        produced |-> sigsOf(l.blocks), blocks |-> l.blocks]
  ELSE [ret |-> FALSE, bm |-> w.bm, files |-> w.files, enrolled |-> w.enrolled,
        keys |-> w.keys, produced |-> <<>>, blocks |-> <<>>]

RECURSIVE testDataFrom(_, _, _, _, _, _)
\* the for loop of loadNebulaTestData: the signature takes i++ and the loop
\* header increments i once more
testDataFrom(i, numBlocks, start, window, spec, acc) ==
  IF i >= numBlocks THEN acc
  ELSE LET begin == ToSizeT(start + i * window) IN
       testDataFrom(i + 2, numBlocks, start, window, spec,
                    Append(acc, BlockSignature(TEST_TABLE_NAME, i, begin,
                                               ToSizeT(begin + window), spec)))

\* loadNebulaTestData(table, spec): the signatures it adds, in order
loadNebulaTestData(table, spec) ==
  LET start == table.timeSpec.unixTimeValue
      end == ToSizeT(start + HOUR_SECONDS * table.max_hr)
      numBlocks == NumCores
      window == ToSizeT(end - start) \div numBlocks
  IN testDataFrom(0, numBlocks, start, window, spec, <<>>)

\* work() with the loader names compared without regard to case
work_AnyCase(spec, w, obj, now) ==
  LET loader == spec.table.loader IN
  IF loader = FLAGS_NTEST_LOADER
  THEN LET sigs == loadNebulaTestData(spec.table, spec.id) IN
       [ret |-> TRUE,
        bm |-> bmAddSigs(w.bm, sigs),
        files |-> w.files, enrolled |-> w.enrolled, keys |-> w.keys,
        produced |-> sigs, blocks |-> <<>>]
  ELSE IF loader \in {LOADER_SWAP, "swap"} THEN loadSwap(spec, w, obj, now)
  ELSE IF loader \in {LOADER_ROLL, "roll"} THEN loadRoll(spec, w, obj, now)
  ELSE [ret |-> FALSE, bm |-> w.bm, files |-> w.files, enrolled |-> w.enrolled,
        keys |-> w.keys, produced |-> <<>>, blocks |-> <<>>]

\* IngestSpec::work()
work(spec, w, obj, now) ==
  LET loader == spec.table.loader IN
  IF loader = FLAGS_NTEST_LOADER
  THEN LET sigs == loadNebulaTestData(spec.table, spec.id) IN
       [ret |-> TRUE,
        bm |-> bmAddSigs(w.bm, sigs),
        files |-> w.files, enrolled |-> w.enrolled, keys |-> w.keys,
        produced |-> sigs, blocks |-> <<>>]
  ELSE IF loader = LOADER_SWAP THEN loadSwap(spec, w, obj, now)
  ELSE IF loader = LOADER_ROLL THEN loadRoll(spec, w, obj, now)
  ELSE [ret |-> FALSE, bm |-> w.bm, files |-> w.files, enrolled |-> w.enrolled,
        keys |-> w.keys, produced |-> <<>>, blocks |-> <<>>]

----------------------------------------------------------------------------
(* Inputs of the model.                                                    *)

Loaders == {"Swap", "Roll", "NebulaTest", "swap"}
Formats == {"csv", "parquet", "orc"}
Paths == {"nebula/v1.x", "nebula/v2.x"}
TimePattern == "%Y-%m-%d %H:%M:%S"

TimeSpecs ==
  {TimeSpec("STATIC", 1000, "", ""),
   TimeSpec("CURRENT", 0, "", ""),
   TimeSpec("COLUMN", 0, "ts", TimePattern),
   TimeSpec("MACRO", 0, "", "date"),
   TimeSpec("PROVIDED", 0, "", "")}

\* the declared schema of the tables: ROW<id:int, ts:string>
TestSchema == <<Column("id", "int"), Column("ts", "string")>>

\* every loader, format and time spec on the file system sources, and every
\* loader on the other sources
Tables ==
  {TableSpec("test", 24, TestSchema, ds, lo, f, ts) :
     ds \in {d \in DataSources : isFileSystem(d)}, lo \in Loaders,
     f \in Formats, ts \in TimeSpecs}
  \cup
  {TableSpec("test", 24, TestSchema, ds, lo, "csv", TimeSpec("STATIC", 1000, "", "")) :
     ds \in DataSources, lo \in Loaders}

Specs ==
  {IngestSpec(t, "1.0", p, "nebula", 10, "NEW", 7) : t \in Tables, p \in Paths}

Row(id, ts) == [id |-> id, ts |-> ts]

\* what the object store answers for the requested key: a failed request (an
\* error or a missing object), an object without content, a file with a
\* header and no rows, a file with three rows
ObjError == [success |-> FALSE, length |-> 0, rows |-> <<>>]
ObjEmpty == [success |-> TRUE, length |-> 0, rows |-> <<>>]
ObjNoRows == [success |-> TRUE, length |-> 8, rows |-> <<>>]
ObjData ==
  [success |-> TRUE, length |-> 64,
   rows |-> <<Row(1, "1970-01-01 00:00:05"), Row(2, "1970-01-01 00:00:03"),
              Row(3, "1970-01-01 00:00:07")>>]
Objects == {ObjError, ObjEmpty, ObjNoRows, ObjData}

\* the clock during a work() invocation
Now == 9

----------------------------------------------------------------------------
(* The state machine: work() invocations, one after the other.             *)

NoCall == [called |-> FALSE]
Idle == "idle"

Init ==
  /\ bm = {}
  /\ files = {}
  /\ enrolled = {}
  /\ last = NoCall
  /\ calls = 0
  /\ pl = Idle
  /\ cc = Idle
  /\ made = <<>>
  /\ rw = Idle
  /\ tb = Idle
  /\ fb = Idle

\* one IngestSpec::work() invocation, from its call to its return; work() and
\* the functions it calls assign nothing to state_, so the state of the spec
\* after the call (last.state) is its state before the call
Work(spec, obj) ==
  /\ calls < MaxCalls
  /\ \E r \in {work(spec, [bm |-> bm, files |-> files, enrolled |-> enrolled,
                            keys |-> <<>>], obj, Now)} :
        /\ bm' = r.bm
        /\ files' = r.files
        /\ enrolled' = r.enrolled
        /\ last' = [called |-> TRUE, spec |-> spec, obj |-> obj, before |-> bm,
                    ret |-> r.ret, produced |-> r.produced, keys |-> r.keys,
                    state |-> spec.state]
  /\ calls' = calls + 1
  /\ UNCHANGED <<pl, cc, made, fb, rw, tb>>

Next == \E spec \in Specs, obj \in Objects : Work(spec, obj)

Spec == Init /\ [][Next]_vars

----------------------------------------------------------------------------
(* Properties of work() (specification Spec).                              *)

\* the signatures in a list of signatures
SigSet(sigs) == {sigs[i] : i \in 1..Len(sigs)}

\* the installed blocks that share (table_name, spec_id) with the ingest spec
SameSpecBlocks(b, spec) == {s \in b : s.table = spec.table.name /\ s.spec = spec.id}

LastLoader == last.spec.table.loader
LastSource == last.spec.table.source
LastFormat == last.spec.table.format
LastTimeType == last.spec.table.timeSpec.type
LastFetched == last.keys # <<>>

\* C1: a work() that returns true has installed every block it produced, and
\* a work() that returns false has left the block manager as it was.
C1_AllOrNothing ==
  last.called =>
    /\ last.ret => SigSet(last.produced) \subseteq bm
    /\ ~last.ret => bm = last.before

\* C1 witness: a Swap that returned true after producing two blocks against a
\* block manager that already held blocks.
C1_Witness ==
  /\ last.called /\ last.ret /\ LastLoader = LOADER_SWAP
  /\ Len(last.produced) = 2 /\ last.before # {}
  /\ SigSet(last.produced) \subseteq bm

\* C2: after a Swap work() returned true, the installed blocks that share the
\* spec's (table_name, spec_id) are exactly the blocks this run emitted.
\* Stated for the runs whose download succeeded, so that the source is what
\* the run read.
C2_SwapExactlyNew ==
  (last.called /\ LastLoader = LOADER_SWAP /\ last.ret /\ downloadFile(last.obj)) =>
    SameSpecBlocks(bm, last.spec) = SigSet(last.produced)

\* C4: after a Roll work() returned true, every block installed before the
\* call is still installed and every block of this run is installed too.
C4_RollAdditive ==
  (last.called /\ LastLoader = LOADER_ROLL /\ last.ret) =>
    /\ last.before \subseteq bm
    /\ SigSet(last.produced) \subseteq bm
    /\ bm = last.before \cup SigSet(last.produced)

\* C4 witness: a Roll returned true with two new blocks while a different
\* block of the same table and spec id was installed, and that block remains.
C4_Witness ==
  /\ last.called /\ LastLoader = LOADER_ROLL /\ last.ret
  /\ Len(last.produced) = 2
  /\ \E s \in last.before :
       /\ s.table = last.spec.table.name /\ s.spec = last.spec.id
       /\ s \notin SigSet(last.produced)
       /\ s \in bm

\* C5: with loader Swap or Roll, work() runs the fetch+ingest pipeline iff the
\* source is a file system source (S3 or LOCAL); for every other source it
\* returns false and leaves the block manager unchanged.
C5_FileSystemSources ==
  (last.called /\ LastLoader \in {LOADER_SWAP, LOADER_ROLL}) =>
    /\ LastFetched <=> isFileSystem(LastSource)
    /\ ~isFileSystem(LastSource) => (~last.ret /\ bm = last.before)

\* C6: a loader that is not exactly "Swap", "Roll" or the test loader name
\* makes work() return false without a fetch and without a change of the
\* block manager.
C6_UnknownLoader ==
  (last.called /\ LastLoader \notin {LOADER_SWAP, LOADER_ROLL, FLAGS_NTEST_LOADER}) =>
    /\ ~last.ret
    /\ ~LastFetched
    /\ bm = last.before
    /\ files = {}

\* C6 witness: work() ran with loader "swap" on an S3 table while the block
\* manager held blocks, and returned false.
C6_Witness ==
  /\ last.called /\ LastLoader = "swap" /\ LastSource = "S3"
  /\ last.before # {} /\ ~last.ret /\ bm = last.before

\* C7: with a format that is neither csv nor parquet, work() on a file system
\* source returns false, the block manager is unchanged and no temporary file
\* is left.
\* Stated for the loaders that read the file (Swap, Roll) and a download that
\* succeeded.
C7_UnsupportedFormat ==
  (/\ last.called /\ ~formatSupported(LastFormat) /\ isFileSystem(LastSource)
   /\ LastLoader \in {LOADER_SWAP, LOADER_ROLL} /\ downloadFile(last.obj)) =>
    /\ ~last.ret
    /\ bm = last.before
    /\ files = {}

\* C8: with a time type the ingest core does not handle (PROVIDED), a Swap or
\* Roll work() on a file system source returns false and installs no block.
\* Stated for a download that succeeded.
C8_UnsupportedTimeType ==
  (/\ last.called /\ ~timeTypeHandled(LastTimeType)
   /\ LastLoader \in {LOADER_SWAP, LOADER_ROLL} /\ isFileSystem(LastSource)
   /\ downloadFile(last.obj)) =>
    /\ ~last.ret
    /\ bm \subseteq last.before

\* C9: when the fetch of the backing file fails, a Swap or Roll work() returns
\* false, installs no block and removes no block.
C9_FetchFailure ==
  (/\ last.called /\ LastLoader \in {LOADER_SWAP, LOADER_ROLL}
   /\ LastFetched /\ ~downloadFile(last.obj)) =>
    /\ ~last.ret
    /\ bm = last.before

\* C13: the blocks the pipeline emits for one spec carry the sequence numbers
\* 0, 1, ..., k-1 in list order, and the list handed to the block manager is
\* in that order.
C13_SequenceNumbers ==
  (last.called /\ LastLoader \in {LOADER_SWAP, LOADER_ROLL}) =>
    \A i \in 1..Len(last.produced) : last.produced[i].seq = i - 1

\* C13 witness: a Roll handed two blocks to the block manager, the first with
\* sequence number 0 and the second with sequence number 1.
C13_Witness ==
  /\ last.called /\ LastLoader = LOADER_ROLL /\ last.ret
  /\ Len(last.produced) = 2
  /\ last.produced[1].seq = 0 /\ last.produced[2].seq = 1
  /\ SigSet(last.produced) \subseteq bm

\* C14: every block work() produced, by the pipeline or by the test loader,
\* has the id() of the ingest spec as its spec_id, and a block of the
\* pipeline has the table name of the spec as its table_name.
C14_BlockIdentity ==
  last.called =>
    \A i \in 1..Len(last.produced) :
      /\ last.produced[i].spec = last.spec.id
      /\ LastLoader \in {LOADER_SWAP, LOADER_ROLL} =>
           last.produced[i].table = last.spec.table.name

\* C14 witness: after a run of the test loader for one spec, a Swap for a
\* spec with another id produced two blocks that carry its id and table name.
C14_Witness ==
  /\ last.called /\ LastLoader = LOADER_SWAP /\ Len(last.produced) = 2
  /\ \E s \in last.before : s.table = TEST_TABLE_NAME /\ s.spec # last.spec.id
  /\ \A i \in 1..2 : /\ last.produced[i].spec = last.spec.id
                     /\ last.produced[i].table = "test"

\* C15: for a source without rows the pipeline yields no block, and a Roll
\* work() on it returns true and leaves the block manager unchanged.
C15_EmptySource ==
  (/\ last.called /\ LastLoader = LOADER_ROLL /\ isFileSystem(LastSource)
   /\ downloadFile(last.obj) /\ last.obj.rows = <<>>
   /\ timeTypeHandled(LastTimeType) /\ formatSupported(LastFormat)) =>
    /\ last.produced = <<>>
    /\ last.ret
    /\ bm = last.before

\* the blocks section 4.1 gives the test loader: block i has sequence number
\* i and the window [start + i*w, start + (i+1)*w)
TestBlocks(spec, n) ==
  LET start == spec.table.timeSpec.unixTimeValue
      w == (HOUR_SECONDS * spec.table.max_hr) \div n
  IN [k \in 1..n |->
        BlockSignature(TEST_TABLE_NAME, k - 1, start + (k - 1) * w, start + k * w, spec.id)]

\* C16: with parallelism N the test loader installs exactly N blocks, block i
\* with sequence number i and the window [start + i*w, start + (i+1)*w), so
\* that the windows cover [start, end) without a gap.
C16_TestLoaderBlocks ==
  (last.called /\ LastLoader = FLAGS_NTEST_LOADER) =>
    /\ last.produced = TestBlocks(last.spec, NumCores)
    /\ SigSet(TestBlocks(last.spec, NumCores)) \subseteq bm

\* C22: work() on a NEW spec takes the spec through PROCESSING to READY when
\* it returns true and to FAILED when it returns false.
C22_Lifecycle ==
  (last.called /\ last.spec.state = "NEW") =>
    last.state = (IF last.ret THEN "READY" ELSE "FAILED")

\* C24: the key a Swap or Roll work() passes to the copy of the file system
\* is the path() of the spec.
C24_FetchKey ==
  (last.called /\ LastLoader \in {LOADER_SWAP, LOADER_ROLL} /\ LastFetched) =>
    last.keys = <<last.spec.path>>

\* C27: a Swap or Roll work() leaves every installed block whose
\* (table_name, spec_id) differs from that of the running spec installed and
\* unchanged.
C27_OtherSpecsUntouched ==
  (last.called /\ LastLoader \in {LOADER_SWAP, LOADER_ROLL}) =>
    \A s \in last.before :
      ~(s.table = last.spec.table.name /\ s.spec = last.spec.id) => s \in bm

\* C27 witness: a Swap produced two blocks while two blocks of the same table
\* under another spec id were installed, and these are still installed.
C27_Witness ==
  /\ last.called /\ LastLoader = LOADER_SWAP /\ last.ret /\ Len(last.produced) = 2
  /\ \E s \in last.before :
       /\ s.table = last.spec.table.name /\ s.spec # last.spec.id /\ s \in bm
  /\ Cardinality(last.before) = 2
  /\ last.before \subseteq bm

----------------------------------------------------------------------------
(* Workers running work() concurrently against one block manager, and a    *)
(* reader enumerating it (specification SpecSwap).  Every call on the      *)
(* block manager is one step: the block manager serializes its calls.      *)

\* worker threads of the scheduler
NumWorkers == 2
\* work() invocations started in one behaviour of SpecSwap
MaxSwapCalls == 3

Workers == 1..NumWorkers

SwapTables ==
  {TableSpec("test", 24, TestSchema, "S3", lo, "csv", ts) :
     lo \in {LOADER_SWAP, LOADER_ROLL},
     ts \in {TimeSpec("STATIC", 1000, "", ""), TimeSpec("COLUMN", 0, "ts", TimePattern)}}

SwapSpecs == {IngestSpec(t, "1.0", "nebula/v1.x", "nebula", 10, "NEW", 7) : t \in SwapTables}

\* the file after it was written anew with one row
ObjOneRow ==
  [success |-> TRUE, length |-> 64, rows |-> <<Row(1, "1970-01-01 00:00:03")>>]

SwapObjects == {ObjNoRows, ObjData, ObjOneRow}

IdleWorker == [pc |-> "idle"]

\* the worker is between the call of work() and its return
Active(wk) == wk.pc \in {"remove", "add"}

InitSwap ==
  /\ bm = {}
  /\ files = {}
  /\ enrolled = {}
  /\ last = NoCall
  /\ calls = 0
  /\ made = <<>>
  /\ rw = Idle
  /\ tb = Idle
  /\ fb = Idle
  /\ pl = Idle
  /\ cc = [w |-> [x \in Workers |-> IdleWorker], seen |-> [bm |-> {}, swaps |-> {}]]

\* work() is called on worker x: the dispatch on the loader and load(), which
\* touch no block of the block manager
SwapStart(x, spec, obj) ==
  /\ calls < MaxSwapCalls
  /\ ~Active(cc.w[x])
  /\ \E l \in {load(spec, [bm |-> bm, files |-> files, enrolled |-> enrolled,
                            keys |-> <<>>], obj, Now)} :
     LET alone == \A y \in Workers : ~Active(cc.w[y])
         mine == [pc |-> IF spec.table.loader = LOADER_SWAP /\ l.blocks # <<>>
                         THEN "remove" ELSE "add",
                  spec |-> spec, blocks |-> l.blocks, i |-> 1,
                  old |-> SameSpecBlocks(bm, spec), alone |-> alone]
     IN /\ cc' = [cc EXCEPT !.w = [y \in Workers |->
                     IF y = x THEN mine
                     ELSE IF Active(cc.w[y]) THEN [cc.w[y] EXCEPT !.alone = FALSE]
                     ELSE cc.w[y]]]
        /\ files' = l.files
        /\ enrolled' = l.enrolled
  /\ calls' = calls + 1
  /\ UNCHANGED <<bm, last, pl, made, fb, rw, tb>>

\* one iteration of the loop of loadSwap: bm->removeSameSpec(b.signature())
SwapRemove(x) ==
  /\ cc.w[x].pc = "remove"
  /\ LET wk == cc.w[x] IN
     /\ bm' = removeSameSpec(bm, wk.blocks[wk.i].sig)
     /\ cc' = [cc EXCEPT !.w[x].i = wk.i + 1,
                         !.w[x].pc = IF wk.i + 1 > Len(wk.blocks) THEN "add" ELSE "remove"]
  /\ UNCHANGED <<files, enrolled, last, calls, pl, made, fb, rw, tb>>

\* bm->add(std::move(blocks)) of loadSwap and loadRoll, and the return of true
SwapAdd(x) ==
  /\ cc.w[x].pc = "add"
  /\ bm' = bmAddBlocks(bm, cc.w[x].blocks)
  /\ cc' = [cc EXCEPT !.w[x].pc = "returned"]
  /\ UNCHANGED <<files, enrolled, last, calls, pl, made, fb, rw, tb>>

\* a reader enumerates the block manager
Enumerate ==
  /\ cc' = [cc EXCEPT !.seen =
              [bm |-> bm,
               swaps |-> {[spec |-> cc.w[x].spec, old |-> cc.w[x].old,
                           new |-> SigSet(sigsOf(cc.w[x].blocks))] :
                          x \in {y \in Workers :
                                   /\ Active(cc.w[y])
                                   /\ cc.w[y].spec.table.loader = LOADER_SWAP
                                   /\ cc.w[y].alone}}]]
  /\ UNCHANGED <<bm, files, enrolled, last, calls, pl, made, fb, rw, tb>>

NextSwap ==
  \/ \E x \in Workers, spec \in SwapSpecs, obj \in SwapObjects : SwapStart(x, spec, obj)
  \/ \E x \in Workers : SwapRemove(x)
  \/ \E x \in Workers : SwapAdd(x)
  \/ Enumerate

SpecSwap == InitSwap /\ [][NextSwap]_vars

\* C3: what a reader sees while a Swap work() replaces the blocks of its spec
\* (no other work() running) is exactly the old blocks of the spec or exactly
\* the new ones.
C3_SwapAtomicForReaders ==
  \A s \in cc.seen.swaps :
    \/ SameSpecBlocks(cc.seen.bm, s.spec) = s.old
    \/ SameSpecBlocks(cc.seen.bm, s.spec) = s.new

\* C23: when two Swap work() invocations for the same spec id ran
\* concurrently on two workers and both returned true, the blocks installed
\* for the (table_name, spec_id) are exactly the blocks of one of the two
\* runs, never the union.
\* Stated for two runs of one and the same spec that both emitted blocks.
C23_ConcurrentSwaps ==
  \A x, y \in Workers :
    (/\ x # y
     /\ cc.w[x].pc = "returned" /\ cc.w[y].pc = "returned"
     /\ cc.w[x].spec = cc.w[y].spec
     /\ cc.w[x].spec.table.loader = LOADER_SWAP
     /\ cc.w[x].blocks # <<>> /\ cc.w[y].blocks # <<>>) =>
      \/ SameSpecBlocks(bm, cc.w[x].spec) = SigSet(sigsOf(cc.w[x].blocks))
      \/ SameSpecBlocks(bm, cc.w[x].spec) = SigSet(sigsOf(cc.w[y].blocks))

----------------------------------------------------------------------------
(* IngestSpec::ingest() run step by step on one file (specification        *)
(* SpecIngest): the preparation, one step per row, the end of the loop.    *)

\* rows of the longest source file
MaxRows == 4
\* largest batch capacity (value of the flag NBLOCK_MAX_ROWS)
MaxBRows == 3
\* ticks of the clock during one run
MaxTicks == 2

TsStrings == {"1970-01-01 00:00:05", "1970-01-01 00:00:03", "1969-12-31 23:59:58"}

\* the source files: row i has id i and any of the time strings
Sources ==
  UNION {{[i \in 1..n |-> Row(i, f[i])] : f \in [1..n -> TsStrings]} : n \in 0..MaxRows}

IngestTimeSpecs == TimeSpecs \cup {TimeSpec("MACRO", 0, "", "hour")}

\* declared schemas with the time column first, in the middle, and alone
IngestSchemas ==
  {<<Column("ts", "string"), Column("id", "int")>>,
   <<Column("id", "int"), Column("ts", "string"), Column("event", "string")>>,
   <<Column("ts", "string")>>}

\* the ingest specs of SpecIngest: every format and time spec, for the date
\* macro a date after and a date before the epoch, and the other declared
\* schemas with a time from a column and a static time
IngestSpecs ==
  {IngestSpec(TableSpec("test", 24, sc, "S3", LOADER_ROLL, f, ts),
              "1.0", "nebula/v1.x", "nebula", 10, "NEW", 7) :
     sc \in IngestSchemas, f \in {"csv", "parquet"},
     ts \in {TimeSpec("COLUMN", 0, "ts", TimePattern), TimeSpec("STATIC", 1000, "", "")}}
  \cup
  {IngestSpec(TableSpec("test", 24, TestSchema, "S3", LOADER_ROLL, f, ts),
              "1.0", "nebula/v1.x", "nebula", 10, "NEW", 7) :
     f \in Formats, ts \in IngestTimeSpecs}
  \cup
  {IngestSpec(TableSpec("test", 24, TestSchema, "S3", LOADER_ROLL, "csv",
                        TimeSpec("MACRO", 0, "", "date")),
              "1.0", "nebula/v1.x", "nebula", 10, "NEW", -3)}

InitIngest ==
  /\ bm = {}
  /\ files = {}
  /\ enrolled = {}
  /\ last = NoCall
  /\ calls = 0
  /\ cc = Idle
  /\ made = <<>>
  /\ rw = Idle
  /\ tb = Idle
  /\ fb = Idle
  /\ pl \in {[phase |-> "start", spec |-> sp, rows |-> src, bRows |-> b, i |-> 1,
              st |-> loopInit, clock |-> Now, ticks |-> 0, blocks |-> <<>>,
              table |-> [name |-> "", schema |-> <<>>], reader |-> NoReader] :
             sp \in IngestSpecs, src \in Sources, b \in 1..MaxBRows}

\* schema preparation, the switch on the time type, enrollment and the
\* selection of the reader
IngestPrepare ==
  /\ pl.phase = "start"
  /\ LET table == pl.spec.table IN
     IF ~timeTypeHandled(table.timeSpec.type)
     THEN /\ pl' = [pl EXCEPT !.phase = "done"]
          /\ UNCHANGED enrolled
     ELSE /\ enrolled' = enroll(enrolled, table.name, finalSchema(table))
          /\ pl' = [pl EXCEPT !.phase = IF formatSupported(table.format)
                                        THEN "loop" ELSE "done",
                              !.table = [name |-> table.name,
                                         schema |-> finalSchema(table)],
                              !.reader = openReader(table, columnsOf(table.schema))]
  /\ UNCHANGED <<bm, files, last, calls, cc, made, fb, rw, tb>>

\* one iteration of while (source->hasNext()); the clock is read only by the
\* time function of CURRENT, once for the range and once by Batch::add
IngestRow(d1, d2) ==
  /\ pl.phase = "loop"
  /\ pl.i <= Len(pl.rows)
  /\ IF pl.spec.table.timeSpec.type = "CURRENT"
     THEN pl.ticks + d1 + d2 <= MaxTicks
     ELSE d1 = 0 /\ d2 = 0
  /\ LET t1 == pl.clock + d1
         t2 == t1 + d2
     IN pl' = [pl EXCEPT !.st = loopBody(pl.st, pl.rows[pl.i],
                                         loopCtx(pl.spec, pl.bRows), t1, t2),
                         !.i = pl.i + 1,
                         !.clock = t2,
                         !.ticks = pl.ticks + d1 + d2]
  /\ UNCHANGED <<bm, files, enrolled, last, calls, cc, made, fb, rw, tb>>

\* hasNext() is false: the last batch becomes a block and ingest() returns
IngestEnd ==
  /\ pl.phase = "loop"
  /\ pl.i > Len(pl.rows)
  /\ pl' = [pl EXCEPT !.phase = "done",
                      !.blocks = loopEnd(pl.st, loopCtx(pl.spec, pl.bRows))]
  /\ UNCHANGED <<bm, files, enrolled, last, calls, cc, made, fb, rw, tb>>

NextIngest ==
  \/ IngestPrepare
  \/ \E d1 \in 0..1, d2 \in 0..1 : IngestRow(d1, d2)
  \/ IngestEnd

SpecIngest == InitIngest /\ [][NextIngest]_vars

\* the row counts of the emitted blocks, in list order
BlockSizes(blocks) == [k \in 1..Len(blocks) |-> Len(blocks[k].rows)]

\* C10: every emitted block holds at least 1 and at most B rows, and every
\* block but the last holds exactly B rows.
C10_BlockSizes ==
  pl.phase = "done" =>
    \A k \in 1..Len(pl.blocks) :
      /\ 1 <= Len(pl.blocks[k].rows)
      /\ Len(pl.blocks[k].rows) <= pl.bRows
      /\ k < Len(pl.blocks) => Len(pl.blocks[k].rows) = pl.bRows

\* C10 witness: a source of 4 rows with B = 3 ended in blocks of 3 rows and
\* of 1 row.
C10_Witness ==
  /\ pl.phase = "done" /\ Len(pl.rows) = 4 /\ pl.bRows = 3
  /\ BlockSizes(pl.blocks) = <<3, 1>>

\* the ingest pipeline ran to the end of its batch loop
IngestRan ==
  /\ pl.phase = "done"
  /\ timeTypeHandled(pl.spec.table.timeSpec.type)
  /\ formatSupported(pl.spec.table.format)

\* C11: in every emitted block, time_min <= t <= time_max holds for the _time_
\* value t of every row stored in the block.
\* Stated for the rows whose stored _time_ is not negative, where the value
\* and its size_t image are the same number.
C11_RangeCoversRows ==
  IngestRan =>
    \A k \in 1..Len(pl.blocks) :
      \A j \in 1..Len(pl.blocks[k].rows) :
        LET t == pl.blocks[k].rows[j].time IN
        t >= 0 => (pl.blocks[k].sig.tmin <= t /\ t <= pl.blocks[k].sig.tmax)

RECURSIVE RowsOfBlocks(_)
\* the rows stored in a list of blocks, block after block
RowsOfBlocks(blocks) ==
  IF blocks = <<>> THEN <<>>
  ELSE blocks[1].rows \o RowsOfBlocks(Tail(blocks))

\* the source rows behind a list of stored rows
SourceRows(stored) == [j \in 1..Len(stored) |-> stored[j].src]

\* C12: the rows of the emitted blocks, concatenated in list order, are the
\* rows of the source in source order: none dropped, none duplicated, none
\* reordered.
C12_RowsPreserved ==
  IngestRan => SourceRows(RowsOfBlocks(pl.blocks)) = pl.rows

\* C12 witness: a source of 4 rows with B = 2 ended in two full blocks that
\* together hold the 4 rows in source order.
C12_Witness ==
  /\ IngestRan /\ Len(pl.rows) = 4 /\ pl.bRows = 2
  /\ BlockSizes(pl.blocks) = <<2, 2>>
  /\ SourceRows(pl.blocks[1].rows) = SubSeq(pl.rows, 1, 2)
  /\ SourceRows(pl.blocks[2].rows) = SubSeq(pl.rows, 3, 4)

\* the positions of the declared columns that the final schema keeps
KeptColumns(table) ==
  {i \in 1..Len(table.schema) :
     ~(table.timeSpec.type = "COLUMN" /\ table.schema[i].name = table.timeSpec.colName)}

\* C19: the table ingest() enrolls and builds its batches with has the
\* declared columns in declared order, without the source column of a COLUMN
\* time spec, and one long column _time_ as its last column; the csv reader is
\* opened with the names of the declared columns and the parquet reader with
\* the declared schema.
C19_FinalSchema ==
  (pl.phase \in {"loop", "done"} /\ timeTypeHandled(pl.spec.table.timeSpec.type)) =>
    LET declared == pl.spec.table.schema
        final == pl.table.schema
        kept == KeptColumns(pl.spec.table)
    IN /\ Len(final) = Cardinality(kept) + 1
       /\ final[Len(final)] = [name |-> TIME_COLUMN, type |-> "long"]
       /\ \A i \in kept : final[Cardinality({j \in kept : j <= i})] = declared[i]
       /\ \A i \in 1..(Len(final) - 1) : final[i].name # TIME_COLUMN
       /\ [name |-> pl.spec.table.name, schema |-> final] \in enrolled
       /\ pl.spec.table.format = "csv" =>
            /\ pl.reader.kind = "csv"
            /\ pl.reader.columns = [i \in 1..Len(declared) |-> declared[i].name]
       /\ pl.spec.table.format = "parquet" =>
            /\ pl.reader.kind = "parquet"
            /\ pl.reader.schema = declared

\* C19 witness: a csv table declared as (id, ts) with the time taken from the
\* column ts got the final schema (id, _time_) while its reader was opened
\* with the columns (id, ts), and rows were read.
C19_Witness ==
  /\ pl.phase = "done" /\ pl.blocks # <<>>
  /\ pl.spec.table.timeSpec.type = "COLUMN" /\ pl.spec.table.format = "csv"
  /\ columnsOf(pl.spec.table.schema) = <<"id", "ts">>
  /\ columnsOf(pl.table.schema) = <<"id", TIME_COLUMN>>
  /\ pl.reader.columns = <<"id", "ts">>

----------------------------------------------------------------------------
(* Construction of IngestSpecs and their identity (specification SpecId).  *)

\* IngestSpecs constructed in one behaviour
MaxSpecs == 2

\* the table names of the model that contain '@', and all of its table names
NamesWithAt == {"a@b"}
IdNames == {"test", "a"} \cup NamesWithAt

\* the paths of the model: without '@' and with '@'
IdPaths == {"nebula/v1.x", "c", "b@c"}

IdSizes == {10, 11}

\* the fields that are no part of the id: the values of the unit test, each
\* field changed alone, and all of them changed
IdOthers ==
  {[version |-> "1.0", domain |-> "nebula", state |-> "NEW", mdate |-> 0],
   [version |-> "2.0", domain |-> "nebula", state |-> "NEW", mdate |-> 0],
   [version |-> "1.0", domain |-> "other", state |-> "NEW", mdate |-> 0],
   [version |-> "1.0", domain |-> "nebula", state |-> "READY", mdate |-> 0],
   [version |-> "1.0", domain |-> "nebula", state |-> "NEW", mdate |-> 7],
   [version |-> "2.0", domain |-> "other", state |-> "READY", mdate |-> 7]}

\* the table of the unit test, under the given name
IdTable(name) ==
  TableSpec(name, 10, TestSchema, "S3", "swap", "csv", TimeSpec("STATIC", 0, "", ""))

InitId ==
  /\ bm = {}
  /\ files = {}
  /\ enrolled = {}
  /\ last = NoCall
  /\ calls = 0
  /\ pl = Idle
  /\ cc = Idle
  /\ made = <<>>
  /\ rw = Idle
  /\ tb = Idle
  /\ fb = Idle

\* an IngestSpec is constructed
Construct(name, path, size, o) ==
  /\ Len(made) < MaxSpecs
  /\ made' = Append(made, IngestSpec(IdTable(name), o.version, path, o.domain,
                                     size, o.state, o.mdate))
  /\ UNCHANGED <<bm, files, enrolled, last, calls, pl, cc, fb, rw, tb>>

NextId ==
  \E name \in IdNames, path \in IdPaths, size \in IdSizes, o \in IdOthers :
    Construct(name, path, size, o)

SpecId == InitId /\ [][NextId]_vars

\* two constructed specs have the same (table.name, path, size)
SameTriple(a, b) == a.table.name = b.table.name /\ a.path = b.path /\ a.size = b.size

\* C17: id() is "{table.name}@{path}@{size}" (table test, path nebula/v1.x
\* and size 10 give "test@nebula/v1.x@10"), so two IngestSpecs with the same
\* (table.name, path, size) have the same id() whatever their version,
\* domain, state and mdate are.
C17_IdFormat ==
  \A i \in 1..Len(made) :
    /\ (made[i].table.name = "test" /\ made[i].path = "nebula/v1.x" /\ made[i].size = 10)
         => made[i].id = "test@nebula/v1.x@10"
    /\ (made[i].table.name = "a@b" /\ made[i].path = "c" /\ made[i].size = 11)
         => made[i].id = "a@b@c@11"
    /\ \A j \in 1..Len(made) : SameTriple(made[i], made[j]) => made[i].id = made[j].id

\* C17 witness: the spec of the unit test and a spec with the same table
\* name, path and size but another version, domain, state and mdate have
\* both been constructed, with the id "test@nebula/v1.x@10".
C17_Witness ==
  /\ Len(made) = 2
  /\ SameTriple(made[1], made[2])
  /\ made[1].version # made[2].version /\ made[1].domain # made[2].domain
  /\ made[1].state # made[2].state /\ made[1].mdate # made[2].mdate
  /\ made[1].id = "test@nebula/v1.x@10" /\ made[2].id = "test@nebula/v1.x@10"

\* C18: two IngestSpecs with the same id() have the same (table.name, path,
\* size), also when a table name or a path contains '@'.
C18_IdInjective ==
  \A i, j \in 1..Len(made) :
    made[i].id = made[j].id => SameTriple(made[i], made[j])

\* C18 amended: two IngestSpecs whose table names contain no '@' and that
\* have the same id() have the same (table.name, path, size); the paths may
\* contain '@'.
C18_IdInjectiveNoAt ==
  \A i, j \in 1..Len(made) :
    (/\ made[i].table.name \notin NamesWithAt
     /\ made[j].table.name \notin NamesWithAt
     /\ made[i].id = made[j].id) => SameTriple(made[i], made[j])

\* C18 witness: two specs of table a, one with a path that contains '@',
\* have been constructed with different ids, and so have two specs that
\* differ in the size only.
C18_Witness ==
  /\ Len(made) = 2
  /\ made[1].table.name = "a" /\ made[2].table.name = "a"
  /\ made[1].id # made[2].id
  /\ \/ made[1].path = "b@c" /\ made[2].path = "c" /\ made[1].size = made[2].size
     \/ made[1].path = "b@c" /\ made[2].path = "b@c" /\ made[1].size # made[2].size

----------------------------------------------------------------------------
(* The FlatBuffer behind a batch (specification SpecFlat).  The buffer     *)
(* keeps one slot per column and row in a main store, the strings in a     *)
(* data store and the elements of lists in a list store; a row is read     *)
(* back through the offsets kept in its slots.                             *)

\* add() and rollback() calls in one behaviour
MaxOps == 4

\* the columns of the test table the FlatBuffer tests read
FlatSchema ==
  <<Column("id", "int"), Column("event", "string"), Column("items", "list"),
    Column("flag", "bool")>>

\* a value of a row or an element of a list: null, or a value
Cell(null, v) == [null |-> null, v |-> v]

\* what a reader observes for a null of the type
NullOf(type) ==
  CASE type = "int" -> Cell(TRUE, 0)
    [] type = "string" -> Cell(TRUE, "")
    [] type = "list" -> Cell(TRUE, <<>>)
    [] type = "bool" -> Cell(TRUE, FALSE)

\* a slot of the main store
Slot(null, ref, n) == [null |-> null, ref |-> ref, n |-> n]

\* the lengths of the stores
Cursors(buf) ==
  [rows |-> Len(buf.rows), main |-> Len(buf.main), data |-> Len(buf.data),
   list |-> Len(buf.list)]

\* FlatBuffer(schema)
FlatBuffer(schema) ==
  [schema |-> schema, rows |-> <<>>, main |-> <<>>, data |-> <<>>, list |-> <<>>,
   undo |-> [rows |-> 0, main |-> 0, data |-> 0, list |-> 0]]

RECURSIVE writeItems_NullAsEmpty(_, _, _)
\* writeItems that stores a null element as an empty string
writeItems_NullAsEmpty(buf, items, k) ==
  IF k > Len(items) THEN buf
  ELSE writeItems_NullAsEmpty(
         [buf EXCEPT !.data = Append(@, items[k].v),
                     !.list = Append(@, [null |-> FALSE, ref |-> Len(buf.data) + 1])],
         items, k + 1)

RECURSIVE writeItems(_, _, _)
\* the elements of a list go to the list store, their strings to the data
\* store
writeItems(buf, items, k) ==
  IF k > Len(items) THEN buf
  ELSE writeItems(
         IF items[k].null
         THEN [buf EXCEPT !.list = Append(@, [null |-> TRUE, ref |-> 0])]
         ELSE [buf EXCEPT !.data = Append(@, items[k].v),
                          !.list = Append(@, [null |-> FALSE, ref |-> Len(buf.data) + 1])],
         items, k + 1)

\* one value of the row goes to its slot
writeCell(buf, type, cell) ==
  IF cell.null THEN [buf EXCEPT !.main = Append(@, Slot(TRUE, 0, 0))]
  ELSE CASE type = "int" -> [buf EXCEPT !.main = Append(@, Slot(FALSE, cell.v, 0))]
         [] type = "bool" ->
              [buf EXCEPT !.main = Append(@, Slot(FALSE, IF cell.v THEN 1 ELSE 0, 0))]
         [] type = "string" ->
              [buf EXCEPT !.data = Append(@, cell.v),
                          !.main = Append(@, Slot(FALSE, Len(buf.data) + 1, 0))]
         [] type = "list" ->
              [writeItems(buf, cell.v, 1) EXCEPT
                 !.main = Append(@, Slot(FALSE, Len(buf.list) + 1, Len(cell.v)))]

RECURSIVE writeRow(_, _, _)
\* the values of the row, column after column of the schema
writeRow(buf, row, k) ==
  IF k > Len(buf.schema) THEN buf
  ELSE writeRow(writeCell(buf, buf.schema[k].type, row[buf.schema[k].name]), row, k + 1)

\* FlatBuffer::add(row): remembers the cursors, then serializes the row
fbAdd(buf, row) ==
  [writeRow(buf, row, 1) EXCEPT !.rows = Append(@, Len(buf.main)),
                                !.undo = Cursors(buf)]

\* rollback that leaves the data store and the list store as they are
fbRollback_KeepData(buf) ==
  [buf EXCEPT !.rows = SubSeq(@, 1, buf.undo.rows),
              !.main = SubSeq(@, 1, buf.undo.main)]

\* FlatBuffer::rollback(): the stores are cut back to the remembered cursors
fbRollback(buf) ==
  [buf EXCEPT !.rows = SubSeq(@, 1, buf.undo.rows),
              !.main = SubSeq(@, 1, buf.undo.main),
              !.data = SubSeq(@, 1, buf.undo.data),
              !.list = SubSeq(@, 1, buf.undo.list)]

\* FlatBuffer::getRows()
getRows(buf) == Len(buf.rows)

\* what a reader of the slot observes
readCell(buf, type, slot) ==
  IF slot.null THEN NullOf(type)
  ELSE CASE type = "int" -> Cell(FALSE, slot.ref)
         [] type = "bool" -> Cell(FALSE, slot.ref = 1)
         [] type = "string" -> Cell(FALSE, buf.data[slot.ref])
         [] type = "list" ->
              Cell(FALSE,
                   [k \in 1..slot.n |->
                      LET item == buf.list[slot.ref + k - 1] IN
                      IF item.null THEN NullOf("string")
                      ELSE Cell(FALSE, buf.data[item.ref])])

\* FlatBuffer::row(i), 0 <= i < getRows(): the values a reader observes,
\* column by column
fbRow(buf, i) ==
  [name \in {buf.schema[k].name : k \in 1..Len(buf.schema)} |->
     LET k == CHOOSE k \in 1..Len(buf.schema) : buf.schema[k].name = name IN
     readCell(buf, buf.schema[k].type, buf.main[buf.rows[i + 1] + k])]

\* a row of the test table
StaticRow(id, event, items, flag) ==
  [id |-> id, event |-> event, items |-> items, flag |-> flag]

\* the lists of the rows: empty, one string, one null element, nulls
\* between strings
FlatLists ==
  {<<>>, <<Cell(FALSE, "a")>>, <<NullOf("string")>>,
   <<Cell(FALSE, "a"), NullOf("string"), Cell(FALSE, "b")>>}

\* the rows added in the model: one row without nulls, every column of it
\* changed alone to the other values of its type and to null, and the row of
\* nulls
FlatRows ==
  {StaticRow(id, Cell(FALSE, "x"), Cell(FALSE, <<Cell(FALSE, "a")>>), Cell(FALSE, TRUE)) :
     id \in {Cell(FALSE, 7), Cell(FALSE, 0), NullOf("int")}}
  \cup
  {StaticRow(Cell(FALSE, 7), ev, Cell(FALSE, <<Cell(FALSE, "a")>>), Cell(FALSE, TRUE)) :
     ev \in {Cell(FALSE, ""), NullOf("string")}}
  \cup
  {StaticRow(Cell(FALSE, 7), Cell(FALSE, "x"), items, Cell(FALSE, TRUE)) :
     items \in {Cell(FALSE, l) : l \in FlatLists} \cup {NullOf("list")}}
  \cup
  {StaticRow(Cell(FALSE, 7), Cell(FALSE, "x"), Cell(FALSE, <<Cell(FALSE, "a")>>), fl) :
     fl \in {Cell(FALSE, FALSE), NullOf("bool")}}
  \cup
  {StaticRow(NullOf("int"), NullOf("string"), NullOf("list"), NullOf("bool"))}

InitFlat ==
  /\ bm = {}
  /\ files = {}
  /\ enrolled = {}
  /\ last = NoCall
  /\ calls = 0
  /\ pl = Idle
  /\ cc = Idle
  /\ made = <<>>
  /\ rw = Idle
  /\ tb = Idle
  /\ fb = [buf |-> FlatBuffer(FlatSchema), added |-> <<>>, ops |-> 0]

\* fb.add(row)
FbAdd(row) ==
  /\ fb.ops < MaxOps
  /\ fb' = [buf |-> fbAdd(fb.buf, row), added |-> Append(fb.added, row),
            ops |-> fb.ops + 1]
  /\ UNCHANGED <<bm, files, enrolled, last, calls, pl, cc, made, rw, tb>>

\* fb.rollback() after an add
FbRollback ==
  /\ fb.ops < MaxOps
  /\ getRows(fb.buf) > fb.buf.undo.rows
  /\ fb' = [buf |-> fbRollback(fb.buf),
            added |-> SubSeq(fb.added, 1, Len(fb.added) - 1),
            ops |-> fb.ops + 1]
  /\ UNCHANGED <<bm, files, enrolled, last, calls, pl, cc, made, rw, tb>>

NextFlat ==
  \/ \E row \in FlatRows : FbAdd(row)
  \/ FbRollback

SpecFlat == InitFlat /\ [][NextFlat]_vars

\* C20: after any sequence of add() calls getRows() is the number of rows
\* added, and row(i) reads back the values of the i-th row added for every
\* column, with the nulls of the row and the nulls of the elements of its
\* lists; adding further rows changes no earlier row.
C20_RoundTrip ==
  /\ getRows(fb.buf) = Len(fb.added)
  /\ \A i \in 0..(Len(fb.added) - 1) : fbRow(fb.buf, i) = fb.added[i + 1]

\* C20 witness: three rows were added, the first with a list that has a null
\* between two strings, the second with a null list and the third without a
\* value in any column, and the buffer reads the three rows back.
C20_Witness ==
  /\ getRows(fb.buf) = 3 /\ Len(fb.added) = 3
  /\ fb.added[1].items = Cell(FALSE, <<Cell(FALSE, "a"), NullOf("string"), Cell(FALSE, "b")>>)
  /\ fb.added[2].items = NullOf("list") /\ ~fb.added[2].id.null
  /\ fb.added[3].event.null /\ fb.added[3].id.null
  /\ fbRow(fb.buf, 0).items.v[2].null /\ fbRow(fb.buf, 0).items.v[3] = Cell(FALSE, "b")
  /\ fbRow(fb.buf, 1).items.null /\ fbRow(fb.buf, 1).event = Cell(FALSE, "x")
  /\ fbRow(fb.buf, 2).flag.null

\* the state of the buffer a reader or a later add depends on: the stores,
\* whose lengths are the offsets
Stores(buf) == [rows |-> buf.rows, main |-> buf.main, data |-> buf.data, list |-> buf.list]

RECURSIVE addAll(_, _, _)
\* the buffer after the adds of rows[k], rows[k+1], ... and nothing else
addAll(buf, rows, k) ==
  IF k > Len(rows) THEN buf ELSE addAll(fbAdd(buf, rows[k]), rows, k + 1)

\* C21: s; add(r); rollback() leaves the buffer in the state of s alone:
\* getRows(), the offsets and every row(i) are as after s, also when pairs of
\* add and rollback are repeated and a further add follows.  The rows the
\* buffer holds after any run of adds and rollbacks are the rows not rolled
\* back (fb.added), so the state must be the state of adding just those.
C21_Rollback ==
  /\ Stores(fb.buf) = Stores(addAll(FlatBuffer(FlatSchema), fb.added, 1))
  /\ getRows(fb.buf) = Len(fb.added)
  /\ \A i \in 0..(Len(fb.added) - 1) : fbRow(fb.buf, i) = fb.added[i + 1]

\* C21 witness: four calls left two rows in the buffer, the last call being
\* an add on top of one row: an add was rolled back on the way, and the row
\* added first, with strings in its list, still reads back.
C21_Witness ==
  /\ fb.ops = 4 /\ getRows(fb.buf) = 2 /\ fb.buf.undo.rows = 1
  /\ fb.added[1].items = Cell(FALSE, <<Cell(FALSE, "a"), NullOf("string"), Cell(FALSE, "b")>>)
  /\ fbRow(fb.buf, 0) = fb.added[1]
  /\ fbRow(fb.buf, 1) = fb.added[2]

\* the _time_ values of the rows stored in a block
BlockTimes(block) == {block.rows[j].time : j \in 1..Len(block.rows)}

\* the smallest and the largest of a non-empty set of integers
MinOf(S) == CHOOSE m \in S : \A x \in S : m <= x
MaxOf(S) == CHOOSE m \in S : \A x \in S : x <= m

\* C25: the range of every emitted block is tight and local to the block:
\* time_min is the minimum and time_max the maximum of the _time_ values of
\* the rows stored in the block (so the range starts anew after a full batch
\* was pushed, and the row that caused the push counts for the next block).
\* Stated for the blocks whose stored _time_ values are not negative.
C25_TightRange ==
  IngestRan =>
    \A k \in 1..Len(pl.blocks) :
      (\A t \in BlockTimes(pl.blocks[k]) : t >= 0) =>
        /\ pl.blocks[k].sig.tmin = MinOf(BlockTimes(pl.blocks[k]))
        /\ pl.blocks[k].sig.tmax = MaxOf(BlockTimes(pl.blocks[k]))

\* the int64_t that has the bits of a size_t
AsSigned(v) == IF v >= SizeMod \div 2 THEN v - SizeMod ELSE v

\* C26: for a block whose rows have negative _time_ values among them,
\* time_min is the smallest and time_max the largest _time_ under signed
\* comparison, and time_min <= time_max.  The range of the signature is read
\* as signed numbers.
C26_SignedRange ==
  IngestRan =>
    \A k \in 1..Len(pl.blocks) :
      (\E t \in BlockTimes(pl.blocks[k]) : t < 0) =>
        /\ AsSigned(pl.blocks[k].sig.tmin) = MinOf(BlockTimes(pl.blocks[k]))
        /\ AsSigned(pl.blocks[k].sig.tmax) = MaxOf(BlockTimes(pl.blocks[k]))
        /\ AsSigned(pl.blocks[k].sig.tmin) <= AsSigned(pl.blocks[k].sig.tmax)

----------------------------------------------------------------------------
(* The row adapter RowWrapperWithTime (specification SpecAdapter): rows    *)
(* are bound with set() and read through the adapter.                      *)

\* source rows with an int column id, a string column ts and a long column
\* cnt, of which id and cnt may be null
AdapterRows ==
  {[id |-> 1, ts |-> s, cnt |-> c, nulls |-> n] :
     s \in TsStrings, c \in {5, -4}, n \in SUBSET {"id", "cnt"}}

\* the time specs the switch of ingest() handles
AdapterTimeSpecs == {ts \in IngestTimeSpecs : timeTypeHandled(ts.type)}

NoAnswer == [op |-> "none", field |-> "", val |-> 0]

InitAdapter ==
  /\ bm = {}
  /\ files = {}
  /\ enrolled = {}
  /\ last = NoCall
  /\ calls = 0
  /\ pl = Idle
  /\ cc = Idle
  /\ made = <<>>
  /\ fb = Idle
  /\ tb = Idle
  /\ rw \in {[w |-> RowWrapperWithTime(ts, mdate), set |-> [nulls |-> {}],
              out |-> NoAnswer] :
             ts \in AdapterTimeSpecs, mdate \in {7, -3}}

\* rw.set(&row); rw.set remembers the row handed to the most recent set()
RwSet(row) ==
  /\ rw' = [rw EXCEPT !.w = rwSet(rw.w, row), !.set = row, !.out = NoAnswer]
  /\ UNCHANGED <<bm, files, enrolled, last, calls, pl, cc, made, fb, tb>>

\* rw.readLong(field) on a bound adapter
RwReadLong(field) ==
  /\ rw.w.bound
  /\ rw' = [rw EXCEPT !.out = [op |-> "readLong", field |-> field,
                               val |-> rwReadLong(rw.w, field, Now)]]
  /\ UNCHANGED <<bm, files, enrolled, last, calls, pl, cc, made, fb, tb>>

\* rw.isNull(field) on a bound adapter
RwIsNull(field) ==
  /\ rw.w.bound
  /\ rw' = [rw EXCEPT !.out = [op |-> "isNull", field |-> field,
                               val |-> rwIsNull(rw.w, field)]]
  /\ UNCHANGED <<bm, files, enrolled, last, calls, pl, cc, made, fb, tb>>

\* rw.readInt(field) or rw.readString(field) on a bound adapter
RwRead(field) ==
  /\ rw.w.bound
  /\ rw' = [rw EXCEPT !.out = [op |-> "read", field |-> field,
                               val |-> rwRead(rw.w, field)]]
  /\ UNCHANGED <<bm, files, enrolled, last, calls, pl, cc, made, fb, tb>>

NextAdapter ==
  \/ \E row \in AdapterRows : RwSet(row)
  \/ \E field \in {TIME_COLUMN, "cnt"} : RwReadLong(field)
  \/ \E field \in {TIME_COLUMN, "id", "ts", "cnt"} : RwIsNull(field)
  \/ \E field \in {"id", "ts"} : RwRead(field)

SpecAdapter == InitAdapter /\ [][NextAdapter]_vars

\* C28: readLong("_time_") answers f(current row) for the time function f
\* of the time spec (STATIC: unix_time_value; MACRO "date": the mdate of the
\* spec; MACRO with another pattern: 0; COLUMN: the parsed source column),
\* isNull("_time_") answers false for every row, and every other read and
\* null check is answered by the row most recently bound by set().
C28_RowAdapter ==
  LET ts == rw.w.timeSpec
      o == rw.out
  IN /\ (o.op = "readLong" /\ o.field = TIME_COLUMN) =>
          /\ ts.type = "STATIC" => o.val = ts.unixTimeValue
          /\ (ts.type = "MACRO" /\ ts.pattern = "date") => o.val = rw.w.mdate
          /\ (ts.type = "MACRO" /\ ts.pattern # "date") => o.val = 0
          /\ ts.type = "COLUMN" => o.val = EvidenceTime(rw.set[ts.colName], ts.pattern)
     /\ (o.op = "isNull" /\ o.field = TIME_COLUMN) => o.val = FALSE
     /\ (o.op = "isNull" /\ o.field # TIME_COLUMN) => o.val = (o.field \in rw.set.nulls)
     /\ (o.op \in {"readLong", "read"} /\ o.field # TIME_COLUMN) => o.val = rw.set[o.field]

\* C28 witness: an adapter for a COLUMN time spec, bound to a row with a null
\* id and a source column before the epoch, answered readLong("_time_") with
\* the parsed time of that row.
C28_Witness ==
  /\ rw.w.timeSpec.type = "COLUMN" /\ rw.w.bound
  /\ rw.set.ts = "1969-12-31 23:59:58" /\ "id" \in rw.set.nulls
  /\ rw.out = [op |-> "readLong", field |-> TIME_COLUMN, val |-> -2]

----------------------------------------------------------------------------
(* The two derivations of the final schema of a table (specification       *)
(* SpecTable): TableSpec::to() and IngestSpec::ingest().                   *)

\* the time specs of the tables: those ingest() handles, and a COLUMN time
\* spec whose source column is named _time_
TableTimeSpecs ==
  AdapterTimeSpecs \cup {TimeSpec("COLUMN", 0, TIME_COLUMN, TimePattern)}

SchemaTables ==
  {TableSpec("test", 24, sc, "S3", LOADER_ROLL, f, ts) :
     sc \in IngestSchemas \cup {TestSchema}, f \in {"csv", "parquet"},
     ts \in TableTimeSpecs}

NoSchema == [done |-> FALSE, schema |-> <<>>]

InitTable ==
  /\ bm = {}
  /\ files = {}
  /\ enrolled = {}
  /\ last = NoCall
  /\ calls = 0
  /\ pl = Idle
  /\ cc = Idle
  /\ made = <<>>
  /\ fb = Idle
  /\ rw = Idle
  /\ tb \in {[table |-> t, to |-> NoSchema, ingest |-> NoSchema] : t \in SchemaTables}

\* table->to()
TableTo ==
  /\ ~tb.to.done
  /\ tb' = [tb EXCEPT !.to = [done |-> TRUE, schema |-> to(tb.table)]]
  /\ UNCHANGED <<bm, files, enrolled, last, calls, pl, cc, made, fb, rw>>

\* the schema preparation of ingest() for the table
TableIngest ==
  /\ ~tb.ingest.done
  /\ tb' = [tb EXCEPT !.ingest = [done |-> TRUE, schema |-> finalSchema(tb.table)]]
  /\ UNCHANGED <<bm, files, enrolled, last, calls, pl, cc, made, fb, rw>>

NextTable == TableTo \/ TableIngest

SpecTable == InitTable /\ [][NextTable]_vars

\* C29: for every table spec with the time type STATIC, CURRENT, COLUMN or
\* MACRO, to() and ingest() derive the same ordered list of columns, also
\* when the source column of the COLUMN time spec is named _time_.
C29_SameSchema ==
  (tb.to.done /\ tb.ingest.done) =>
    columnsOf(tb.to.schema) = columnsOf(tb.ingest.schema)

====
